---------------------------- MODULE Spec2Model ----------------------------
(***************************************************************************)
(* Streamlit stock chatbot: the session state kept in st.session_state,    *)
(* the script runs of main() that the user's events and st.rerun() start,  *)
(* and the two clients of api.py (market data, language model).            *)
(*                                                                         *)
(* A run of the script imports api (app.py:7), which on the first run of   *)
(* the process reads both keys of st.secrets (api.py:15-16), and then      *)
(* calls main().                                                           *)
(*                                                                         *)
(* A run of main() is made of segments.  A segment goes from the start of  *)
(* the run, or from the return of a blocking call to a service, to the     *)
(* next blocking call (requests.get at api.py:50, completions.create at    *)
(* api.py:106) or to the end of the run.  A run ends at the bottom of      *)
(* main, at st.rerun(), or at an st call at which Streamlit stops the      *)
(* script because an event of the user is waiting: every st call is such a *)
(* yield point, and what the script wrote to st.session_state before it    *)
(* stays written.                                                          *)
(*                                                                         *)
(* Text is modelled by TLA+ strings, f-strings by string concatenation.    *)
(* A Python dict whose key order matters (a record of the provider, a row  *)
(* of the DataFrame with its index) is the sequence of its <<key, value>>  *)
(* pairs in insertion order.                                               *)
(* A price is a JSON number [num, dtype]: num counts tenths, dtype is the  *)
(* type the JSON parser gives it ("int64" for 1, "float64" for 1.0, 1.5).  *)
(***************************************************************************)
EXTENDS Integers, Sequences, FiniteSets, TLC

(***************************************************************************)
(* Program constants                                                       *)
(***************************************************************************)
STOCK_SYMBOLS ==
    <<"AAPL", "MSFT", "GOOGL", "AMZN", "META",
      "NVDA", "TSLA", "IBM", "NFLX", "AMD">>

DEFAULT_SYMBOL == "AAPL"

EXAMPLE_PROMPTS ==
    <<"What is your role?",
      "Give me an overview of the stock",
      "What is the highest Close rate?",
      "What are the key technical indicators suggesting?",
      "What is the lowest Open rate?",
      "Show me support and resistance levels">>

SYSTEM_PROMPT ==
    "You are a stock market analyst. Your role is to use this data \nto answer questions about the stock"

\* the string deepseek_chat returns from its except branch
FallbackText == "Cannot connect to the API. Please try again later."

\* df.head(5)
HeadRows == 5

\* Python's None
None == "<None>"

(***************************************************************************)
(* Bounds of the model                                                     *)
(***************************************************************************)
\* the user picks among the first NumSymbols options of the selectbox
NumSymbols == 2
\* the user clicks among the first NumExamples example buttons
NumExamples == 1
\* the page is acted on (opened, a widget used) and the secrets file is
\* edited at most MaxEvents times in a session
MaxEvents == 3
\* in a session the provider answers with at most MaxRows records
MaxRows == 1
\* the answer get_stock_data is applied to holds at most MaxFetchRows records
MaxFetchRows == 3
\* the series a context is built from has at most MaxContextRows rows
MaxContextRows == 6
\* the series metrics are taken of has at most MaxMetricRows rows
MaxMetricRows == 3
\* a caller hands deepseek_chat at most MaxChatMessages messages
MaxChatMessages == 2
\* a long answer of the provider has MaxLongRows records, more than
\* HeadRows
MaxLongRows == 6

\* questions the user types into st.chat_input
TypedQuestions == {"Is it a buy?"}
\* completions the language model returns
ModelTexts == {"The stock is trending up."}

VARIABLES
    session_state,   \* st.session_state: a dict, key -> value
    series_symbol,   \* history variable: the symbol argument of the
                     \* get_stock_data call that produced stock_data
    run,             \* the current or the last run of main(): what started
                     \* it, where the script is, the requests it sent, what
                     \* it put on the page, whether it ended in st.rerun()
    event,           \* history variable: the user event being served and
                     \* what its runs did so far
    secrets,         \* st.secrets: the keys the secrets file holds
    imported,        \* sys.modules holds api: the import of app.py:7 ran
                     \* api.py to its end in an earlier run
    probe            \* the inputs and the results of a function applied on
                     \* its own (SpecContext); unused by the session

vars == <<session_state, series_symbol, run, event, secrets, imported, probe>>

(***************************************************************************)
(* Exceptions and return values                                            *)
(***************************************************************************)
Raise(msg) == [raised |-> TRUE, error |-> msg]
Return(v) == [raised |-> FALSE, value |-> v]

(***************************************************************************)
(* api.py: get_stock_data                                                  *)
(***************************************************************************)
JsonInt(n) == [num |-> 10 * n, dtype |-> "int64"]
JsonFloat(tenths) == [num |-> tenths, dtype |-> "float64"]

\* an ordered dict: its keys in insertion order, d[k], k in d
keys(d) == [i \in 1..Len(d) |-> d[i][1]]
has_key(d, k) == \E i \in 1..Len(d) : d[i][1] = k
item(d, k) == d[CHOOSE i \in 1..Len(d) : d[i][1] = k][2]

\* the names the keys of a provider record get in the DataFrame
column_mapping ==
    [open     |-> "Open",
     high     |-> "High",
     low      |-> "Low",
     close    |-> "Close",
     adjClose |-> "Adjusted Close",
     volume   |-> "Volume"]

\* df.rename(columns=column_mapping): a key the mapping does not hold
\* keeps its name
rename(k) == IF k \in DOMAIN column_mapping THEN column_mapping[k] ELSE k

\* the columns of pd.DataFrame(historical_data) after set_index('date'):
\* the keys of the records other than date, in the order the records list
\* them (the records of an answer hold the same keys)
data_keys(historical_data) ==
    LET listed(k) == k # "date"
    IN  SelectSeq(keys(historical_data[1]), listed)

\* pd.DataFrame(records): a column holds one dtype; one float among the
\* values of a column makes the column float64
column_dtype(historical_data, k) ==
    IF \E i \in 1..Len(historical_data) :
           item(historical_data[i], k).dtype = "float64"
    THEN "float64"
    ELSE "int64"

\* pd.DataFrame(historical_data), to_datetime, set_index('date'), rename:
\* the rows in the provider's order; a row holds its index, then every
\* other key of the record as a column, in the records' order, renamed
\* and typed
DataFrame(historical_data) ==
    LET cols == data_keys(historical_data)
    IN  [i \in 1..Len(historical_data) |->
            <<<<"date", item(historical_data[i], "date")>>>>
            \o [j \in 1..Len(cols) |->
                   <<rename(cols[j]),
                     [num   |-> item(historical_data[i], cols[j]).num,
                      dtype |-> column_dtype(historical_data, cols[j])]>>]]

\* the columns of a row, in their order: its keys but the index
columns(row) ==
    LET column(k) == k # "date"
    IN  SelectSeq(keys(row), column)

\* DataFrame.empty: the frame has no rows or no columns.  pd.DataFrame()
\* has neither; the frame of records that hold a date and nothing else has
\* rows and no columns
empty(df) == df = <<>> \/ columns(df[1]) = <<>>

\* data.get('historical', [])
historical_of(data) ==
    IF "historical" \in DOMAIN data THEN data.historical ELSE <<>>

\* df['date'] of line 59 raises KeyError when no record has the key
has_date(historical_data) ==
    \E i \in 1..Len(historical_data) : has_key(historical_data[i], "date")

\* response is what requests.get, raise_for_status and response.json() do:
\* they raise a RequestException (kind "request_exception"), the body
\* parses to a list (kind "json_list", data.get raises AttributeError), or
\* it parses to the dict response.data (kind "json")
get_stock_data(symbol, response) ==
    IF response.kind = "request_exception"
    THEN Raise("Failed to fetch stock data: " \o response.error)
    ELSE IF response.kind = "json_list"
    THEN Raise("Error processing stock data: 'list' object has no attribute 'get'")
    ELSE IF historical_of(response.data) = <<>>
    THEN Raise("Error processing stock data: No historical data found for symbol: "
               \o symbol)
    ELSE IF ~has_date(historical_of(response.data))
    THEN Raise("Error processing stock data: 'date'")
    ELSE Return(DataFrame(historical_of(response.data)))

(***************************************************************************)
(* api.py: deepseek_chat                                                   *)
(***************************************************************************)
\* the system turn put after the caller's messages
full_messages_appends_system(messages) ==
    messages \o <<[role |-> "system", content |-> SYSTEM_PROMPT]>>

\* the request body: the system turn, then the caller's messages
full_messages(messages) ==
    <<[role |-> "system", content |-> SYSTEM_PROMPT]>> \o messages

\* outcome is what client.chat.completions.create does: it raises
\* (kind "exception"), or returns a response with a list of choices, each
\* the message.content of the choice, a text or None.  stop is the st call
\* at which Streamlit stops the script, or None.
\* A response with a choice returns its content as it is (line 118).  Any
\* failure is caught at line 120 and calls st.error (line 124): when the
\* script is stopped there, the call is left by the exception Streamlit
\* stops a script with, which is no Exception and is caught nowhere;
\* otherwise the fallback text is returned.
\* The result carries the request that was sent and whether st.error
\* drew its element.
deepseek_chat(messages, outcome, stop) ==
    IF outcome.kind = "response" /\ outcome.choices # <<>>
    THEN [raised |-> FALSE, stopped |-> FALSE, value |-> outcome.choices[1],
          sent |-> full_messages(messages), st_error |-> FALSE]
    ELSE IF stop = "st.error:124"
    THEN [raised |-> TRUE, stopped |-> TRUE, value |-> None,
          sent |-> full_messages(messages), st_error |-> FALSE]
    ELSE [raised |-> FALSE, stopped |-> FALSE, value |-> FallbackText,
          sent |-> full_messages(messages), st_error |-> TRUE]

(***************************************************************************)
(* app.py: session state                                                   *)
(***************************************************************************)
session_defaults ==
    [messages       |-> <<>>,
     current_symbol |-> DEFAULT_SYMBOL,
     stock_data     |-> <<>>,
     pending_prompt |-> None]

\* a key gets its default only if it is not in st.session_state
init_session_state(ss) ==
    [k \in DOMAIN ss \cup DOMAIN session_defaults |->
        IF k \in DOMAIN ss THEN ss[k] ELSE session_defaults[k]]

\* st.session_state.pop(key): the key is removed
pop(ss, key) == [k \in DOMAIN ss \ {key} |-> ss[k]]

(***************************************************************************)
(* app.py: get_stock_metrics                                               *)
(***************************************************************************)
RECURSIVE column_max(_, _, _)
column_max(df, col, n) ==
    IF n = 1 THEN item(df[1], col)
    ELSE LET m == column_max(df, col, n - 1)
         IN IF item(df[n], col).num > m.num THEN item(df[n], col) ELSE m

RECURSIVE column_min(_, _, _)
column_min(df, col, n) ==
    IF n = 1 THEN item(df[1], col)
    ELSE LET m == column_min(df, col, n - 1)
         IN IF item(df[n], col).num < m.num THEN item(df[n], col) ELSE m

\* df[col] raises KeyError for a column the frame does not hold: the
\* first of the columns cols, in their order, that df lacks, or None
RECURSIVE missing_column(_, _, _)
missing_column(df, cols, n) ==
    IF n > Len(cols) THEN None
    ELSE IF ~has_key(df[1], cols[n]) THEN cols[n]
    ELSE missing_column(df, cols, n + 1)

\* get_stock_metrics reading the high and the low off the last point too
get_stock_metrics_last_point(df) ==
    LET missing ==
            missing_column(df, <<"Close", "Open", "High", "Low">>, 1)
    IN  IF empty(df) THEN Return(<<>>)
        ELSE IF missing # None THEN Raise("KeyError: '" \o missing \o "'")
        ELSE Return([current_price |-> item(df[Len(df)], "Close"),
                     open_price    |-> item(df[Len(df)], "Open"),
                     high_price    |-> item(df[Len(df)], "High"),
                     low_price     |-> item(df[Len(df)], "Low")])

\* the empty dict is the function with the empty domain.  The dict is
\* built key by key (lines 45-48): the first column the frame lacks
\* raises KeyError
get_stock_metrics(df) ==
    LET missing ==
            missing_column(df, <<"Close", "Open", "High", "Low">>, 1)
    IN  IF empty(df) THEN Return(<<>>)
        ELSE IF missing # None THEN Raise("KeyError: '" \o missing \o "'")
        ELSE Return([current_price |-> item(df[Len(df)], "Close"),
                     open_price    |-> item(df[Len(df)], "Open"),
                     high_price    |-> column_max(df, "High", Len(df)),
                     low_price     |-> column_min(df, "Low", Len(df))])

(***************************************************************************)
(* app.py: the context of a question                                       *)
(***************************************************************************)
\* df.head(n)
head(df, n) == SubSeq(df, 1, IF Len(df) < n THEN Len(df) ELSE n)

\* how to_string prints a value: an int64 without, a float64 with decimals
number_text(x) ==
    IF x.dtype = "int64"
    THEN ToString(x.num \div 10)
    ELSE ToString(x.num \div 10) \o "." \o ToString(x.num % 10)

\* the names of the first n columns, as the header line lists them
RECURSIVE header_text(_, _)
header_text(cols, n) ==
    IF n = 0 THEN "    " ELSE header_text(cols, n - 1) \o "  " \o cols[n]

\* the values of the first n columns of a row
RECURSIVE values_text(_, _, _)
values_text(row, cols, n) ==
    IF n = 0 THEN ""
    ELSE values_text(row, cols, n - 1) \o "  " \o number_text(item(row, cols[n]))

row_text(row) ==
    ToString(item(row, "date"))
        \o values_text(row, columns(row), Len(columns(row)))

\* the lines of the first n rows, each on a line of its own
RECURSIVE rows_text(_, _)
rows_text(df, n) ==
    IF n = 0 THEN "" ELSE rows_text(df, n - 1) \o "\n" \o row_text(df[n])

\* the index of the first n rows, as pandas prints the list of the
\* timestamps of a DatetimeIndex: each date with its time of day
RECURSIVE index_text(_, _)
index_text(df, n) ==
    IF n = 0 THEN ""
    ELSE (IF n = 1 THEN "" ELSE index_text(df, n - 1) \o ", ")
             \o ToString(item(df[n], "date")) \o " 00:00:00"

\* DataFrame.to_string(): of an empty frame (no rows or no columns) the
\* three lines that name it empty and list its index; else the header
\* lines, then one line per row
to_string(df) ==
    IF empty(df)
    THEN "Empty DataFrame\nColumns: []\nIndex: ["
             \o index_text(df, Len(df)) \o "]"
    ELSE header_text(columns(df[1]), Len(columns(df[1]))) \o "\ndate"
             \o rows_text(df, Len(df))

\* the context built from the last five rows, df.tail(5)
context_text_last_rows(stock_name, df) ==
    "Stock data for " \o stock_name \o ": "
        \o to_string(SubSeq(df,
                            IF Len(df) > HeadRows
                            THEN Len(df) - HeadRows + 1 ELSE 1,
                            Len(df)))

\* the context built from one row more than head(5)
context_text_six_rows(stock_name, df) ==
    "Stock data for " \o stock_name \o ": "
        \o to_string(head(df, HeadRows + 1))

\* context = f"Stock data for {stock_name}: {...head(5).to_string()}"
context_text(stock_name, df) ==
    "Stock data for " \o stock_name \o ": " \o to_string(head(df, HeadRows))

\* the single user message generate_chat_response builds
context_messages(ss, prompt) ==
    <<[role    |-> "user",
       content |-> context_text(ss.current_symbol, ss.stock_data)
                       \o "\n\nQuestion: " \o prompt]>>

\* st.secrets[key]: held is the set of the keys the secrets file holds
st_secrets(held, key) ==
    IF key \in held
    THEN Return(key)
    ELSE Raise("KeyError: st.secrets has no key \"" \o key \o "\".")

\* what a call that raised before any request was sent gives back
raised_before_request ==
    [raised |-> TRUE, stopped |-> FALSE, value |-> None, sent |-> <<>>,
     st_error |-> FALSE]

\* generate_chat_response sending the earlier turns of the history too
generate_chat_response_with_history(ss, held, prompt, outcome, stop) ==
    IF st_secrets(held, "deepseek_api_key").raised
    THEN raised_before_request
    ELSE deepseek_chat(SubSeq(ss.messages, 1, Len(ss.messages) - 1)
                           \o context_messages(ss, prompt),
                       outcome, stop)

\* the context and the messages are built, then the key is read (line
\* 186), then deepseek_chat is called
generate_chat_response(ss, held, prompt, outcome, stop) ==
    IF st_secrets(held, "deepseek_api_key").raised
    THEN raised_before_request
    ELSE deepseek_chat(context_messages(ss, prompt), outcome, stop)

(***************************************************************************)
(* app.py: the handlers of a run.  A handler takes and returns the world   *)
(* of the run, w:                                                          *)
(*   ss             st.session_state                                       *)
(*   series_symbol  the history variable                                   *)
(*   inp            the inputs of the run: what the widgets return         *)
(*                  (picked, clicked, typed), the keys st.secrets holds    *)
(*   at             where the script is: "running", waiting in a call to   *)
(*                  a service ("main:222", "handle_stock_selection:141",   *)
(*                  "process_prompt:163"), "stopped" at an st call,        *)
(*                  "raising" while an exception propagates to the except  *)
(*                  of main, or "done"                                     *)
(*   stopped_at     the st call the script was stopped at, or None         *)
(*   stops          for every st call made in this segment, the world the  *)
(*                  script is stopped in when an event of the user waits   *)
(*                  at that call                                           *)
(*   io             the requests sent so far, with their answers           *)
(*   shown          the elements put on the page so far                    *)
(*   chart          the candlestick chart drawn (its title, its data)      *)
(*   metrics        the metrics drawn                                      *)
(*   processed      the prompts process_prompt was called with             *)
(*   rerun          st.rerun() was called                                  *)
(* A handler leaves the world alone unless the script is running.          *)
(***************************************************************************)
NoChart == [drawn |-> FALSE]

new_run(ss, ghost, inp) ==
    [ss |-> ss, series_symbol |-> ghost, inp |-> inp, at |-> "running",
     stopped_at |-> None, stops |-> {}, io |-> <<>>, shown |-> {},
     chart |-> NoChart,
     metrics |-> <<>>, processed |-> <<>>, rerun |-> FALSE]

\* the world of a script that Streamlit stops at the st call call
stopped(w, call) ==
    [w EXCEPT !.at = "stopped", !.stopped_at = call, !.stops = {}]

\* an st call that puts elements on the page.  Every st call is a point
\* where Streamlit stops the script, before the elements are drawn, when
\* an event of the user is waiting: the world stopped here is one of the
\* worlds the segment can end in, and the script that is not stopped goes
\* on with the elements drawn
st(w, call, elements) ==
    IF w.at # "running" THEN w
    ELSE [w EXCEPT !.shown = @ \cup elements,
                   !.stops = @ \cup {stopped(w, call)}]

\* the k-th call of a line that is called in a loop
nth(call, k) == call \o " no. " \o ToString(k)

\* the first n of the st calls calls, in their order, none of which puts
\* on the page an element the world records
RECURSIVE st_each(_, _, _)
st_each(w, calls, n) ==
    IF n = 0 THEN w ELSE st(st_each(w, calls, n - 1), calls[n], {})

\* st.rerun(): the run ends and Streamlit starts the next one.  When an
\* event of the user is waiting the request is merged with it and the
\* next run is the run of that event: the script is stopped here
st_rerun(w, call) ==
    IF w.at # "running" THEN w
    ELSE [w EXCEPT !.rerun = TRUE, !.at = "done",
                   !.stops = @ \cup {stopped(w, call)}]

\* a request that was sent and is not answered yet
fmp_request(symbol) ==
    [svc |-> "fmp", answered |-> FALSE, symbol |-> symbol]

deepseek_request(prompt) ==
    [svc |-> "deepseek", answered |-> FALSE, prompt |-> prompt]

\* a request and its answer
fmp_io(symbol, response, result) ==
    [svc |-> "fmp", answered |-> TRUE, symbol |-> symbol,
     response |-> response, result |-> result]

deepseek_io(outcome, result) ==
    [svc |-> "deepseek", answered |-> TRUE, sent |-> result.sent,
     outcome |-> outcome,
     result |-> [raised |-> result.raised, stopped |-> result.stopped,
                 value |-> result.value]]

\* st.selectbox(options, index): the option the user picked, or, when the
\* user did not touch it, the option at index
st_selectbox(options, index, picked) ==
    IF picked = None THEN options[index] ELSE picked

index_of(options, x) == CHOOSE i \in 1..Len(options) : options[i] = x

\* main, lines 221-225, up to requests.get: the fetch when the cached
\* frame is empty
load_stock_data(w) ==
    IF w.at # "running" \/ ~empty(w.ss.stock_data)
    THEN w
    ELSE IF st_secrets(w.inp.secrets, "stock_api_key").raised
    THEN [w EXCEPT !.at = "raising"]
    ELSE [w EXCEPT !.io = Append(@, fmp_request(w.ss.current_symbol)),
                   !.at = "main:222"]

\* main, lines 222-225, from the return of requests.get
load_stock_data_returns(w, response) ==
    LET r == get_stock_data(w.ss.current_symbol, response)
        w1 == [w EXCEPT !.io[Len(w.io)] =
                            fmp_io(w.ss.current_symbol, response, r),
                        !.at = "running"]
    IN  IF r.raised
        THEN [w1 EXCEPT !.at = "raising"]
        ELSE [w1 EXCEPT !.ss.stock_data = r.value,
                        !.series_symbol = w.ss.current_symbol]

\* handle_stock_selection, lines 118-135: the header, the selectbox (the
\* widget of the sidebar) and the texts of the sidebar, one st call each
sidebar(w) ==
    st_each(st(st(w, "st.header:119", {}), "st.selectbox:120", {"sidebar"}),
            <<"st.subheader:126", "st.write:127", "st.write:128",
              "st.write:129", "st.subheader:131", "st.write:132",
              "st.write:133", "st.write:135">>, 8)

\* handle_stock_selection without line 139
handle_stock_selection_keeps_history(w) ==
    LET new_symbol ==
            st_selectbox(STOCK_SYMBOLS,
                         index_of(STOCK_SYMBOLS, w.ss.current_symbol),
                         w.inp.picked)
        w1 == sidebar(w)
    IN  IF w1.at # "running" \/ new_symbol = w.ss.current_symbol
        THEN w1
        ELSE LET w2 == [w1 EXCEPT !.ss.current_symbol = new_symbol]
             IN IF st_secrets(w.inp.secrets, "stock_api_key").raised
                THEN st_rerun(st(w2, "st.error:146",
                                 {"error: Failed to load data"}),
                              "st.rerun:147")
                ELSE [w2 EXCEPT !.io = Append(@, fmp_request(new_symbol)),
                                !.at = "handle_stock_selection:141"]

\* handle_stock_selection up to requests.get: the sidebar, and on a change
\* of the symbol the writes of lines 138-139
handle_stock_selection(w) ==
    LET new_symbol ==
            st_selectbox(STOCK_SYMBOLS,
                         index_of(STOCK_SYMBOLS, w.ss.current_symbol),
                         w.inp.picked)
        w1 == sidebar(w)
    IN  IF w1.at # "running" \/ new_symbol = w.ss.current_symbol
        THEN w1
        ELSE LET w2 == [w1 EXCEPT !.ss.current_symbol = new_symbol,
                                  !.ss.messages = <<>>]
             IN IF st_secrets(w.inp.secrets, "stock_api_key").raised
                THEN st_rerun(st(w2, "st.error:146",
                                 {"error: Failed to load data"}),
                              "st.rerun:147")
                ELSE [w2 EXCEPT !.io = Append(@, fmp_request(new_symbol)),
                                !.at = "handle_stock_selection:141"]

\* handle_stock_selection from the return of requests.get, lines 141-147
handle_stock_selection_returns(w, response) ==
    LET r == get_stock_data(w.ss.current_symbol, response)
        w1 == [w EXCEPT !.io[Len(w.io)] =
                            fmp_io(w.ss.current_symbol, response, r),
                        !.at = "running"]
    IN  IF r.raised
        THEN st_rerun(st(w1, "st.error:146", {"error: Failed to load data"}),
                      "st.rerun:147")
        ELSE st_rerun([w1 EXCEPT !.ss.stock_data = r.value,
                                 !.series_symbol = w.ss.current_symbol],
                      "st.rerun:147")

\* the keys of metric_labels, in their order
metric_labels ==
    <<"current_price", "open_price", "high_price", "low_price">>

\* the dict d with d[key] = value
with(d, key, value) ==
    [k \in DOMAIN d \cup {key} |-> IF k = key THEN value ELSE d[k]]

\* display_stock_metrics: st.columns, then the first n metrics, one
\* col.metric call each.  w.metrics holds, for the labels drawn so far,
\* the metric that is drawn, as get_stock_metrics returned it; the page
\* shows it as f"${value:.2f}"
RECURSIVE display_stock_metrics(_, _, _)
display_stock_metrics(w, metrics, n) ==
    IF n = 0
    THEN st(w, "st.columns:79", {})
    ELSE LET w1 == display_stock_metrics(w, metrics, n - 1)
             w2 == st(w1, nth("col.metric:91", n), {"metrics"})
         IN  IF w2.at # "running"
             THEN w2
             ELSE [w2 EXCEPT !.metrics = with(@, metric_labels[n],
                                              metrics[metric_labels[n]])]

\* main, lines 231-241: the metrics are computed (line 232) before they
\* are drawn, and a KeyError of get_stock_metrics propagates to the except
\* of main; the chart reads the columns the metrics read, and is drawn by
\* st.plotly_chart
display_stock_data(w) ==
    IF w.at # "running"
    THEN w
    ELSE IF ~empty(w.ss.stock_data)
    THEN LET metrics == get_stock_metrics(w.ss.stock_data)
             w1 == st(display_stock_metrics(w, metrics.value,
                                            Len(metric_labels)),
                      "st.plotly_chart:239", {"chart"})
         IN  IF metrics.raised
             THEN [w EXCEPT !.at = "raising"]
             ELSE IF w1.at # "running"
             THEN w1
             ELSE [w1 EXCEPT
                      !.chart = [drawn |-> TRUE,
                                 title |-> w.ss.current_symbol
                                               \o " Stock Price",
                                 symbol |-> w.ss.current_symbol,
                                 series_of |-> w.series_symbol]]
    ELSE st(w, "st.warning:241", {"warning: No stock data available"})

\* main, lines 244-245, and display_example_prompts up to its n-th
\* button, one st.button call each.  inp.clicked is the index of the
\* button the user clicked, 0 for none: that call returns True and
\* pending_prompt is set before the next button is drawn
RECURSIVE example_buttons(_, _)
example_buttons(w, n) ==
    IF n = 0
    THEN st_each(w, <<"st.subheader:244", "st.write:245", "st.write:103",
                      "st.columns:104">>, 4)
    ELSE LET w1 == example_buttons(w, n - 1)
             w2 == st(w1, nth("st.button:107", n), {"example prompts"})
         IN  IF w2.at = "running" /\ w.inp.clicked = n
             THEN [w2 EXCEPT !.ss.pending_prompt = EXAMPLE_PROMPTS[n]]
             ELSE w2

display_example_prompts(w) == example_buttons(w, Len(EXAMPLE_PROMPTS))

\* the first n turns of the history: one st.chat_message and one st.write
\* per turn
RECURSIVE chat_messages(_, _)
chat_messages(w, n) ==
    IF n = 0 THEN w
    ELSE st(st(chat_messages(w, n - 1),
               nth("st.chat_message:97", n), {"chat messages"}),
            nth("st.write:98", n), {})

display_chat_messages(w) ==
    IF w.at # "running" THEN w ELSE chat_messages(w, Len(w.ss.messages))

\* process_prompt starting the history over with the new question
process_prompt_resets_history(w, prompt) ==
    LET w1 == [w EXCEPT !.ss.messages =
                            <<[role |-> "user", content |-> prompt]>>,
                        !.processed = Append(@, prompt)]
        w2 == st_each(w1, <<"st.chat_message:156", "st.write:157",
                            "st.chat_message:160", "st.spinner:161">>, 4)
    IN  IF w2.at # "running"
        THEN w2
        ELSE IF st_secrets(w.inp.secrets, "deepseek_api_key").raised
        THEN st_rerun(st(w2, "st.error:170",
                         {"error: Failed to generate response"}),
                      "st.rerun:173")
        ELSE [w2 EXCEPT !.io = Append(@, deepseek_request(prompt)),
                        !.at = "process_prompt:163"]

\* process_prompt up to completions.create: the user turn is appended and
\* drawn, the assistant's message and its spinner are opened, the context
\* is built and the key is read; a missing key raises
\* into the except of line 168
process_prompt(w, prompt) ==
    LET w1 == [w EXCEPT !.ss.messages =
                            Append(@, [role |-> "user", content |-> prompt]),
                        !.processed = Append(@, prompt)]
        w2 == st_each(w1, <<"st.chat_message:156", "st.write:157",
                            "st.chat_message:160", "st.spinner:161">>, 4)
    IN  IF w2.at # "running"
        THEN w2
        ELSE IF st_secrets(w.inp.secrets, "deepseek_api_key").raised
        THEN st_rerun(st(w2, "st.error:170",
                         {"error: Failed to generate response"}),
                      "st.rerun:173")
        ELSE [w2 EXCEPT !.io = Append(@, deepseek_request(prompt)),
                        !.at = "process_prompt:163"]

\* process_prompt from the return of completions.create: the st.error of
\* deepseek_chat (api.py:124), where a stop of the script leaves the call
\* without a value (left) and the script that goes on gets the value
\* returned (r); then the assistant turn, st.rerun()
process_prompt_returns(w, outcome) ==
    LET prompt == w.processed[Len(w.processed)]
        r == generate_chat_response(w.ss, w.inp.secrets, prompt, outcome,
                                    None)
        left == generate_chat_response(w.ss, w.inp.secrets, prompt, outcome,
                                       "st.error:124")
        w2 == IF r.st_error
              THEN [st([w EXCEPT !.io[Len(w.io)] = deepseek_io(outcome, left),
                                 !.at = "running"],
                       "st.error:124", {"error: API error"})
                    EXCEPT !.io[Len(w.io)] = deepseek_io(outcome, r)]
              ELSE [w EXCEPT !.io[Len(w.io)] = deepseek_io(outcome, r),
                             !.at = "running"]
    IN  IF r.raised
        THEN st_rerun(st(w2, "st.error:170",
                         {"error: Failed to generate response"}),
                      "st.rerun:173")
        ELSE st_rerun(st([w2 EXCEPT !.ss.messages =
                              Append(@, [role    |-> "assistant",
                                         content |-> r.value])],
                         "st.write:167", {}),
                      "st.rerun:173")

\* inp.typed is what st.chat_input returns: None, or the submitted text
handle_chat_input(w) ==
    IF w.at # "running"
    THEN w
    ELSE IF w.ss.pending_prompt # None /\ w.ss.pending_prompt # ""
    THEN process_prompt([w EXCEPT !.ss = pop(w.ss, "pending_prompt")],
                        w.ss.pending_prompt)
    ELSE LET w1 == st(w, "st.chat_input:199", {"chat input"})
         IN  IF w1.at = "running" /\ w.inp.typed # None /\ w.inp.typed # ""
             THEN process_prompt(w1, w.inp.typed)
             ELSE w1

(***************************************************************************)
(* app.py: main                                                            *)
(***************************************************************************)
\* the bottom of main
end_of_main(w) ==
    IF w.at = "running" THEN [w EXCEPT !.at = "done"] ELSE w

\* main, lines 250-252: an exception raised in the try block is caught,
\* and the error is drawn
main_except(w) ==
    IF w.at = "raising"
    THEN end_of_main(st([w EXCEPT !.at = "running"],
                        "st.error:252", {"error: FMP API limit"}))
    ELSE end_of_main(w)

\* main going on to the sidebar after the fetch raised
main_try_continues_after_error(w) ==
    main_except(
        handle_chat_input(
            display_chat_messages(
                display_example_prompts(
                    display_stock_data(
                        handle_stock_selection(
                            IF w.at = "raising"
                            THEN st([w EXCEPT !.at = "running"],
                                    "st.error:252", {"error: FMP API limit"})
                            ELSE w))))))

\* main, lines 226-252: the try block after the fetch, and the except.  A
\* handler leaves a world that is raising alone
main_try(w) ==
    main_except(
        handle_chat_input(
            display_chat_messages(
                display_example_prompts(
                    display_stock_data(
                        handle_stock_selection(w))))))

\* main from the top to the first call to a service, or to its end
main(ss, ghost, inp) ==
    LET w0 == st(new_run(ss, ghost, inp), "st.set_page_config:206", {})
        w1 == IF w0.at # "running"
              THEN w0
              ELSE st([w0 EXCEPT !.ss = init_session_state(@)],
                      "st.title:217", {"title"})
    IN  main_try(load_stock_data(w1))

\* api.py, lines 15-16, run by the import of app.py:7: the two keys are
\* read one after the other, the first of what st.secrets holds at line
\* 15 and the second of what it holds at line 16
import_api(held_15, held_16) ==
    IF st_secrets(held_15, "stock_api_key").raised
    THEN st_secrets(held_15, "stock_api_key")
    ELSE st_secrets(held_16, "deepseek_api_key")

\* a run of the script app.py: unless sys.modules holds api, the import
\* runs api.py, and its KeyError ends the run before main is entered, with
\* the exception as the only element of the page; then main, which reads
\* the keys inp.secrets
script(ss, ghost, inp, api_imported, held_15, held_16) ==
    IF ~api_imported /\ import_api(held_15, held_16).raised
    THEN [new_run(ss, ghost, inp) EXCEPT
             !.at = "done", !.shown = {"exception: KeyError"}]
    ELSE main(ss, ghost, inp)

\* main from the return of the call to a service the script waits in
main_resumes(w, answer) ==
    IF w.at = "main:222"
    THEN main_try(load_stock_data_returns(w, answer))
    ELSE IF w.at = "handle_stock_selection:141"
    THEN end_of_main(handle_stock_selection_returns(w, answer))
    ELSE end_of_main(process_prompt_returns(w, answer))

(***************************************************************************)
(* The environment: the answers of the two services, the secrets file,     *)
(* the events of the user                                                  *)
(***************************************************************************)
\* the order the provider lists the keys of a record in
ProviderKeys ==
    <<"date", "open", "high", "low", "close", "adjClose", "volume">>

\* the values the provider holds for day d
PricesOn(d) ==
    [date     |-> d,
     open     |-> JsonInt(d),
     high     |-> JsonFloat(10 * d + 5),
     low      |-> JsonInt(d),
     close    |-> IF d % 2 = 1 THEN JsonInt(d) ELSE JsonFloat(10 * d + 5),
     adjClose |-> JsonFloat(10 * d + 2),
     volume   |-> JsonInt(100 * d),
     vwap     |-> JsonFloat(10 * d + 1)]

\* a record of the body: the keys order in that order, with their values
Listed(order, values) ==
    [i \in 1..Len(order) |-> <<order[i], values[order[i]]>>]

\* the record the provider lists for day d
PricePointOn(d) == Listed(ProviderKeys, PricesOn(d))

\* the orders the provider may list n records in
Ascending(n) == [i \in 1..n |-> PricePointOn(i)]
Descending(n) == [i \in 1..n |-> PricePointOn(n + 1 - i)]

\* the historical array of an answer in a session: empty, or up to MaxRows
\* records
Historical == {Ascending(n) : n \in 0..MaxRows}

\* records that hold a date and no price, or not every price
PartialRecords ==
    {Listed(<<"date">>, PricesOn(1)),
     Listed(<<"date", "close">>, PricesOn(1))}

\* the request fails, the body is a list, it is a dict without a
\* historical array, or it holds a historical array: of no record, of full
\* records, or of a record that lacks prices
FmpResponses ==
    {[kind |-> "request_exception", error |-> "429 Too Many Requests"],
     [kind |-> "json_list"],
     [kind |-> "json", data |-> [error_message |-> "Limit Reach"]]}
    \cup {[kind |-> "json", data |-> [historical |-> h]] : h \in Historical}
    \cup {[kind |-> "json", data |-> [historical |-> <<r>>]] :
             r \in PartialRecords}

\* the answers of a provider that lists MaxLongRows records, more than
\* HeadRows, the oldest or the newest first
FmpLongResponses ==
    {[kind |-> "request_exception", error |-> "429 Too Many Requests"],
     [kind |-> "json", data |-> [historical |-> Ascending(MaxLongRows)]],
     [kind |-> "json", data |-> [historical |-> Descending(MaxLongRows)]]}

\* the call raises, or returns a response: without choices, or with one
\* choice whose message.content is a text or None
LlmOutcomes ==
    {[kind |-> "exception"], [kind |-> "response", choices |-> <<>>]}
    \cup {[kind |-> "response", choices |-> <<t>>] :
             t \in ModelTexts \cup {None}}

\* the service is not called
NotCalled == [kind |-> "not_called"]

\* the keys the secrets file may hold
SecretSets == SUBSET {"stock_api_key", "deepseek_api_key"}

\* the widgets of the page the user can act on
Widgets == {"sidebar", "example prompts", "chat input"}

(***************************************************************************)
(* The state machine: an action starts a run of main, or hands the answer  *)
(* of a service to the script that waits for it                            *)
(***************************************************************************)
EmptyDict == [k \in {} |-> None]

NoProbe == [op |-> "none"]

\* no widget changed
Quiet(held) ==
    [picked |-> None, clicked |-> 0, typed |-> None, secrets |-> held]

InitSession ==
    /\ session_state = EmptyDict
    /\ series_symbol = None
    /\ run = [trigger |-> "none", prev_turns |-> 0, inp |-> Quiet({}),
              at |-> "done", io |-> <<>>,
              shown |-> {}, chart |-> NoChart, metrics |-> <<>>,
              processed |-> <<>>, rerun |-> FALSE, page |-> {}]
    /\ imported = FALSE
    /\ event = [kind |-> "none", count |-> 0, runs |-> 0, requests |-> 0,
                fetch_failed |-> FALSE]

\* a function applied on its own is given both keys
AllSecrets == {"stock_api_key", "deepseek_api_key"}

Init == InitSession /\ secrets \in SecretSets /\ probe = NoProbe

Turns == IF "messages" \in DOMAIN session_state
         THEN Len(session_state.messages) ELSE 0

fetch_failed_in(io) ==
    \E i \in 1..Len(io) :
        io[i].svc = "fmp" /\ io[i].answered /\ io[i].result.raised

\* the script waits in a call to a service
Waiting(at) ==
    at \in {"main:222", "handle_stock_selection:141", "process_prompt:163"}

\* the world a segment ended in becomes the state.  The page keeps the
\* widgets of the run before until a run reaches the bottom of main.
Commit(trigger, prev_turns, w) ==
    /\ session_state' = w.ss
    /\ series_symbol' = w.series_symbol
    /\ run' = [trigger |-> trigger, prev_turns |-> prev_turns,
               inp |-> IF Waiting(w.at) THEN w.inp ELSE Quiet({}),
               at |-> w.at,
               io |-> w.io, shown |-> w.shown, chart |-> w.chart,
               metrics |-> w.metrics, processed |-> w.processed,
               rerun |-> w.rerun,
               page |-> IF w.at = "done" /\ ~w.rerun
                        THEN w.shown \cap Widgets
                        ELSE run.page \cup (w.shown \cap Widgets)]
    /\ UNCHANGED probe

\* what st.secrets may hold at api.py:16 in a run that starts now: while
\* the import of api runs, the file may be edited between the read of
\* line 15 and the read of line 16
SecretsAtLine16 ==
    IF ~imported /\ ~st_secrets(secrets, "stock_api_key").raised
    THEN SecretSets
    ELSE {secrets}

\* what st.secrets may hold when main reads a key, in a run whose import
\* read held_16 at line 16: after an import that ran api.py to its end
\* the file may be edited before main reads
SecretsAtMain(held_16) ==
    IF ~imported /\ ~import_api(secrets, held_16).raised
    THEN SecretSets
    ELSE {held_16}

\* the edits of the file on the way from held_a to held_b to held_c
Edits(held_a, held_b, held_c) ==
    (IF held_a # held_b THEN 1 ELSE 0) + (IF held_b # held_c THEN 1 ELSE 0)

\* the worlds the segment that ends in the world w when nothing stops it
\* can end in: w, or the world stopped at one of the st calls it makes.
\* Where it was stopped is not kept
Stops(w) ==
    {[x EXCEPT !.stopped_at = None, !.stops = {}] : x \in w.stops \cup {w}}

\* a run of the script starts with the inputs inp, started by trigger.  The
\* import reads st.secrets at api.py:15 and at api.py:16, main reads it
\* after the import: an edit of the file in between is an event of the
\* session, and what the file holds at the last read is what it holds when
\* the segment ends
Start(trigger, inp) ==
    \E held_16 \in SecretsAtLine16 :
      \E held_main \in SecretsAtMain(held_16) :
       \E w \in Stops(script(session_state, series_symbol,
                             [inp EXCEPT !.secrets = held_main], imported,
                             secrets, held_16)) :
        LET edits == Edits(secrets, held_16, held_main)
        IN  /\ edits > 0 => event.count + edits < MaxEvents
            /\ Commit(trigger, Turns, w)
            /\ secrets' = held_main
            /\ imported' = (imported \/ ~import_api(secrets, held_16).raised)
            /\ event' = IF trigger = "rerun"
                        THEN [event EXCEPT !.count = @ + edits,
                                           !.runs = @ + 1,
                                           !.requests = @ + Len(w.io)]
                        ELSE [kind |-> trigger,
                              count |-> event.count + 1 + edits,
                              runs |-> 1, requests |-> Len(w.io),
                              fetch_failed |-> FALSE]

\* the world of the script that waits in a call to a service.  After the
\* fetch of main the script reads st.secrets again (app.py:142, 186), and
\* reads what the file holds by then; after the other calls it reads no
\* key
Waits ==
    [ss |-> session_state, series_symbol |-> series_symbol,
     inp |-> [run.inp EXCEPT !.secrets = IF run.at = "main:222"
                                         THEN secrets ELSE @],
     at |-> run.at, stopped_at |-> None, stops |-> {}, io |-> run.io,
     shown |-> run.shown,
     chart |-> run.chart, metrics |-> run.metrics,
     processed |-> run.processed, rerun |-> FALSE]

\* the call the script waits in returns or raises: the run goes on, to
\* the st call it is stopped at, to the next wait or to its end
Resume(answer) ==
    \E w \in Stops(main_resumes(Waits, answer)) :
        /\ Commit(run.trigger, run.prev_turns, w)
        /\ UNCHANGED <<secrets, imported>>
        /\ event' = [event EXCEPT
                        !.requests = @ + Len(w.io) - Len(run.io),
                        !.fetch_failed = @ \/ fetch_failed_in(w.io)]

\* the answers of the provider in this session: the short ones, or (in
\* SpecEndToEnd) the long ones
ProviderAnswers ==
    IF probe.op = "long_series" THEN FmpLongResponses ELSE FmpResponses

\* no run is under way: the last one ended, or was stopped by the event
\* that is served next
Idle ==
    /\ run.at \in {"done", "stopped"}
    /\ ~run.rerun
    /\ event.count < MaxEvents

\* the page is opened, or the user asks for a rerun: no widget changed
Load ==
    /\ Idle
    /\ Start("load", Quiet(secrets))

\* the run st.rerun() starts
Rerun ==
    /\ run.at = "done"
    /\ run.rerun
    /\ Start("rerun", Quiet(secrets))

Selectable == {STOCK_SYMBOLS[i] : i \in 1..NumSymbols}

\* the user picks another symbol in the sidebar
SelectSymbol ==
    /\ Idle
    /\ "sidebar" \in run.page
    /\ \E s \in Selectable \ {session_state.current_symbol} :
          Start("select", [Quiet(secrets) EXCEPT !.picked = s])

\* the user clicks an example prompt
ClickExample ==
    /\ Idle
    /\ "example prompts" \in run.page
    /\ \E i \in 1..NumExamples :
          Start("click", [Quiet(secrets) EXCEPT !.clicked = i])

\* the user submits a question in the chat input
SubmitQuestion ==
    /\ Idle
    /\ "chat input" \in run.page
    /\ \E q \in TypedQuestions :
          Start("input", [Quiet(secrets) EXCEPT !.typed = q])

\* the secrets file is edited, which Streamlit reloads st.secrets on:
\* between two runs, or while the script waits in a call to a service
EditSecrets ==
    /\ event.count < MaxEvents
    /\ secrets' \in SecretSets \ {secrets}
    /\ event' = [event EXCEPT !.count = @ + 1]
    /\ UNCHANGED <<session_state, series_symbol, run, imported, probe>>

\* requests.get returns or raises (api.py:50-51)
FmpAnswers ==
    /\ run.at \in {"main:222", "handle_stock_selection:141"}
    /\ \E f \in ProviderAnswers : Resume(f)

\* client.chat.completions.create returns or raises (api.py:106)
LlmAnswers ==
    /\ run.at = "process_prompt:163"
    /\ \E o \in LlmOutcomes : Resume(o)

Next ==
    \/ Load
    \/ Rerun
    \/ SelectSymbol
    \/ ClickExample
    \/ SubmitQuestion
    \/ EditSecrets
    \/ FmpAnswers
    \/ LlmAnswers

Spec == Init /\ [][Next]_vars

\* the same session with a provider that lists more than HeadRows records
InitEndToEnd ==
    InitSession /\ secrets \in SecretSets /\ probe = [op |-> "long_series"]

SpecEndToEnd == InitEndToEnd /\ [][Next]_vars

(***************************************************************************)
(* The context of a question, applied on its own: two answers of the       *)
(* provider are fetched, and the same question is asked about each.        *)
(***************************************************************************)
\* the record of day d, its close listed with decimals or as an integer
PricePointVariant(d, decimals) ==
    Listed(ProviderKeys,
           [PricesOn(d) EXCEPT
               !.close = IF decimals THEN JsonFloat(10 * d + 5)
                         ELSE JsonInt(d)])

\* the answers of up to MaxContextRows records listed by ascending date
ContextHistorical ==
    UNION {{[i \in 1..n |-> PricePointVariant(i, c[i])] :
               c \in [1..n -> BOOLEAN]} :
           n \in 1..MaxContextRows}

InitContext ==
    /\ InitSession
    /\ secrets = AllSecrets
    /\ probe \in {[op |-> "context", a |-> a, b |-> b, prompt |-> q,
                    built |-> FALSE, content_a |-> None, content_b |-> None] :
                       a \in ContextHistorical, b \in ContextHistorical,
                       q \in TypedQuestions}

\* the content of the user message generate_chat_response sends when the
\* cached series was fetched from the answer historical
content_sent(historical, prompt) ==
    LET r == get_stock_data(DEFAULT_SYMBOL,
                            [kind |-> "json",
                             data |-> [historical |-> historical]])
        ss == [init_session_state(EmptyDict) EXCEPT !.stock_data = r.value]
    IN  generate_chat_response(ss, secrets, prompt,
                               [kind |-> "exception"], None).sent[2].content

BuildContext ==
    /\ probe.op = "context"
    /\ ~probe.built
    /\ probe' = [probe EXCEPT
                    !.built = TRUE,
                    !.content_a = content_sent(probe.a, probe.prompt),
                    !.content_b = content_sent(probe.b, probe.prompt)]
    /\ UNCHANGED <<session_state, series_symbol, run, event, secrets,
                   imported>>

NextContext == BuildContext

SpecContext == InitContext /\ [][NextContext]_vars

(***************************************************************************)
(* get_stock_metrics, applied on its own to the series of an answer        *)
(***************************************************************************)
\* the answers of up to MaxMetricRows records, of any days in any order;
\* the answers whose records hold a date and no price, or the close only
MetricsHistorical ==
    UNION {[1..n -> {PricePointVariant(d, c) :
                        d \in 1..MaxMetricRows, c \in BOOLEAN}] :
           n \in 0..MaxMetricRows}
    \cup {[i \in 1..n |-> Listed(order, PricesOn(i))] :
             n \in 1..MaxMetricRows,
             order \in {<<"date">>, <<"date", "close">>}}

\* the series is the empty DataFrame of the defaults, or a fetched one
InitMetrics ==
    /\ InitSession
    /\ secrets = AllSecrets
    /\ probe \in {[op |-> "metrics", df |-> DataFrame(h), done |-> FALSE,
                   metrics |-> NotCalled] : h \in MetricsHistorical}

ComputeMetrics ==
    /\ probe.op = "metrics"
    /\ ~probe.done
    /\ probe' = [probe EXCEPT !.done = TRUE,
                              !.metrics = get_stock_metrics(probe.df)]
    /\ UNCHANGED <<session_state, series_symbol, run, event, secrets,
                   imported>>

NextMetrics == ComputeMetrics

SpecMetrics == InitMetrics /\ [][NextMetrics]_vars

(***************************************************************************)
(* deepseek_chat, applied on its own to the messages of a caller           *)
(***************************************************************************)
\* the turns a caller may hand over: user and assistant turns
CallerTurns ==
    {[role |-> r, content |-> c] :
        r \in {"user", "assistant"}, c \in TypedQuestions \cup ModelTexts}

InitChat ==
    /\ InitSession
    /\ secrets = AllSecrets
    /\ probe \in {[op |-> "chat", messages |-> m, outcome |-> o,
                   stop |-> y, done |-> FALSE, result |-> NotCalled] :
                      m \in UNION {[1..n -> CallerTurns] :
                                      n \in 0..MaxChatMessages},
                      o \in LlmOutcomes, y \in {None, "st.error:124"}}

CallChat ==
    /\ probe.op = "chat"
    /\ ~probe.done
    /\ probe' = [probe EXCEPT
                    !.done = TRUE,
                    !.result = deepseek_chat(probe.messages, probe.outcome,
                                             probe.stop)]
    /\ UNCHANGED <<session_state, series_symbol, run, event, secrets,
                   imported>>

NextChat == CallChat

SpecChat == InitChat /\ [][NextChat]_vars

(***************************************************************************)
(* get_stock_data, applied on its own to an answer of the provider         *)
(***************************************************************************)
\* the orders a body may list the keys of its records in: the provider's,
\* the close first, a further key at the end
KeyOrders ==
    {ProviderKeys,
     <<"date", "close", "open", "high", "low", "adjClose", "volume">>,
     ProviderKeys \o <<"vwap">>}

\* the answers of up to MaxFetchRows records, of any days in any order
FetchHistorical ==
    UNION {[1..n -> {PricePointOn(d) : d \in 1..MaxFetchRows}] :
           n \in 0..MaxFetchRows}

\* the request fails, the body is a list, it holds no historical array
\* or records without a date, it holds a historical array, or one whose
\* records list their keys in another order
FetchResponses ==
    {[kind |-> "request_exception", error |-> "429 Too Many Requests"],
     [kind |-> "json_list"],
     [kind |-> "json", data |-> [error_message |-> "Limit Reach"]],
     [kind |-> "json",
      data |-> [historical |-> <<Listed(<<"open">>, PricesOn(1))>>]]}
    \cup {[kind |-> "json", data |-> [historical |-> h]] :
             h \in FetchHistorical}
    \cup {[kind |-> "json",
           data |-> [historical |->
                        [i \in 1..2 |-> Listed(order, PricesOn(i))]]] :
             order \in KeyOrders}

InitFetch ==
    /\ InitSession
    /\ secrets = AllSecrets
    /\ probe \in {[op |-> "fetch", symbol |-> s, response |-> f,
                    done |-> FALSE, result |-> NotCalled] :
                       s \in Selectable, f \in FetchResponses}

Fetch ==
    /\ probe.op = "fetch"
    /\ ~probe.done
    /\ probe' = [probe EXCEPT
                    !.done = TRUE,
                    !.result = get_stock_data(probe.symbol, probe.response)]
    /\ UNCHANGED <<session_state, series_symbol, run, event, secrets,
                   imported>>

NextFetch == Fetch

SpecFetch == InitFetch /\ [][NextFetch]_vars

(***************************************************************************)
(* Reading the state                                                       *)
(***************************************************************************)
Has(key) == key \in DOMAIN session_state

\* the market-data and the chat requests of the run that were answered
FmpCalls ==
    {i \in 1..Len(run.io) : run.io[i].svc = "fmp" /\ run.io[i].answered}
ChatCalls ==
    {i \in 1..Len(run.io) : run.io[i].svc = "deepseek" /\ run.io[i].answered}

\* the chat completion failed: an exception, or a response without choices
ChatFailed(outcome) ==
    outcome.kind = "exception" \/ outcome.choices = <<>>

\* the columns the metrics are taken of
PriceColumns == {"Close", "Open", "High", "Low"}

RECURSIVE StrictlyAscending(_, _)
StrictlyAscending(df, n) ==
    \/ n <= 1
    \/ /\ item(df[n - 1], "date") < item(df[n], "date")
       /\ StrictlyAscending(df, n - 1)

(***************************************************************************)
(* C1: the cached series is empty or was fetched for the active symbol,    *)
(* and the chart is never drawn from a series fetched for another symbol   *)
(* than the one it is drawn for.                                           *)
(***************************************************************************)
C1_SeriesMatchesActiveSymbol ==
    /\ Has("stock_data") =>
          \/ session_state.stock_data = <<>>
          \/ series_symbol = session_state.current_symbol
    /\ run.chart.drawn => run.chart.series_of = run.chart.symbol

(***************************************************************************)
(* C2: a step that changes the active symbol leaves the history empty,     *)
(* whether the fetch for the new symbol succeeds or fails.                 *)
(***************************************************************************)
C2_SymbolChangeClearsHistory ==
    [][(/\ Has("current_symbol")
        /\ session_state'.current_symbol # session_state.current_symbol)
         => session_state'.messages = <<>>]_vars

\* the symbol was changed while the history held turns, and the fetch failed
C2_Witness ==
    /\ run.trigger = "select"
    /\ run.prev_turns > 0
    /\ fetch_failed_in(run.io)
    /\ session_state.current_symbol # DEFAULT_SYMBOL
    /\ session_state.messages = <<>>

(***************************************************************************)
(* C3: a processed question appends exactly two turns, the user turn with  *)
(* the literal question and then the assistant turn with the model's text  *)
(* or the fallback text, also when the chat call fails: when the run has   *)
(* ended, the history holds both.                                          *)
(***************************************************************************)
C3_QuestionAppendsTwoTurns ==
    (run.processed # <<>> /\ ~Waiting(run.at)) =>
        LET n == run.prev_turns
            m == session_state.messages
        IN  /\ Len(run.processed) = 1
            /\ Len(m) = n + 2
            /\ m[n + 1] = [role |-> "user", content |-> run.processed[1]]
            /\ m[n + 2].role = "assistant"
            /\ m[n + 2].content \in ModelTexts \cup {FallbackText}

(***************************************************************************)
(* C4: deepseek_chat never raises; it returns a text, and on every failure *)
(* of the provider call (an exception, a response without choices) the     *)
(* text is the fallback string.                                            *)
(***************************************************************************)
C4_ChatNeverRaises ==
    \A i \in ChatCalls :
        /\ ~run.io[i].result.raised
        /\ run.io[i].result.value \in ModelTexts \cup {FallbackText}
        /\ ChatFailed(run.io[i].outcome) =>
               run.io[i].result.value = FallbackText

(***************************************************************************)
(* C5 as stated: the messages handed to the chat client are the prior      *)
(* turns of the history followed by the new context-augmented user turn.   *)
(***************************************************************************)
C5_RequestCarriesHistory ==
    \A i \in ChatCalls :
        Tail(run.io[i].sent) =
            SubSeq(session_state.messages, 1, run.prev_turns)
              \o context_messages(session_state, run.processed[1])

(***************************************************************************)
(* C5 amended: the messages handed to the chat client are exactly one      *)
(* turn, the new context-augmented user turn, whatever the history holds.  *)
(***************************************************************************)
C5_RequestIsSingleTurn ==
    \A i \in ChatCalls :
        Tail(run.io[i].sent) =
            context_messages(session_state, run.processed[1])

\* a question asked after an earlier exchange under the same symbol
C5_Witness ==
    \E i \in ChatCalls :
        /\ run.prev_turns >= 2
        /\ Len(run.io[i].sent) = 2

(***************************************************************************)
(* C6: whenever a fetch fails, the cached series is empty afterwards.      *)
(***************************************************************************)
C6_FailedFetchLeavesSeriesEmpty ==
    fetch_failed_in(run.io) => session_state.stock_data = <<>>

(***************************************************************************)
(* C7: after a failed fetch, the page the user ends up with for that event *)
(* shows a failure message and no metrics, chart or chat interface.        *)
(***************************************************************************)
C7_FailedFetchHaltsDisplay ==
    (event.fetch_failed /\ run.at = "done" /\ ~run.rerun) =>
        /\ \/ "error: FMP API limit" \in run.shown
           \/ "error: Failed to load data" \in run.shown
        /\ run.shown \cap {"metrics", "chart", "example prompts",
                           "chat messages", "chat input"} = {}

(***************************************************************************)
(* C8: every series get_stock_data returns has strictly increasing dates.  *)
(***************************************************************************)
C8_FetchedSeriesAscending ==
    (probe.op = "fetch" /\ probe.done /\ ~probe.result.raised) =>
        StrictlyAscending(probe.result.value, Len(probe.result.value))

(***************************************************************************)
(* C9: get_stock_data never returns an empty series: an empty or missing   *)
(* historical array ends in a failure, and a series stored by a successful *)
(* fetch is not empty.                                                     *)
(***************************************************************************)
C9_FetchNeverReturnsEmpty ==
    /\ \A i \in FmpCalls :
          /\ ~run.io[i].result.raised => ~empty(run.io[i].result.value)
          /\ (/\ run.io[i].response.kind = "json"
              /\ historical_of(run.io[i].response.data) = <<>>)
                 => run.io[i].result.raised
    /\ series_symbol # None => ~empty(session_state.stock_data)

(***************************************************************************)
(* C10 as stated: two cached series that agree on their first 5 rows give  *)
(* the same context for the same symbol and question, whatever their later *)
(* rows are.                                                               *)
(***************************************************************************)
C10_ContextDependsOnFirstRowsOnly ==
    (probe.op = "context" /\ probe.built
        /\ head(probe.a, HeadRows) = head(probe.b, HeadRows))
      => probe.content_a = probe.content_b

(***************************************************************************)
(* C10 amended: two cached series whose first 5 rows agree as the          *)
(* DataFrame holds them, in value and in column dtype, give the same       *)
(* context for the same symbol and question, whatever their later rows.    *)
(***************************************************************************)
C10_ContextDependsOnTypedHead ==
    (probe.op = "context" /\ probe.built
        /\ head(DataFrame(probe.a), HeadRows)
             = head(DataFrame(probe.b), HeadRows))
      => probe.content_a = probe.content_b

\* two series of more than 5 rows that differ after the fifth row only
C10_Witness ==
    /\ probe.op = "context" /\ probe.built
    /\ Len(probe.a) > HeadRows
    /\ probe.a # probe.b
    /\ head(DataFrame(probe.a), HeadRows) = head(DataFrame(probe.b), HeadRows)
    /\ probe.content_a = probe.content_b

(***************************************************************************)
(* C11: a user action causes at most one outbound request, to one service, *)
(* over all the runs it starts; the run st.rerun() starts sends nothing,   *)
(* so a failed fetch or a failed chat call is not tried again.             *)
(***************************************************************************)
C11_OneRequestPerUserAction ==
    /\ event.requests <= 1
    /\ Len(run.io) <= 1
    /\ run.trigger = "rerun" => run.io = <<>>

(***************************************************************************)
(* C12: the history is append-only within a symbol: in every step the old  *)
(* history is a prefix of the new one, or the active symbol changes and    *)
(* the new history is empty.                                               *)
(***************************************************************************)
C12_HistoryAppendOnly ==
    [][LET old == IF Has("messages") THEN session_state.messages ELSE <<>>
           new == IF "messages" \in DOMAIN session_state'
                  THEN session_state'.messages ELSE <<>>
       IN  \/ /\ Len(old) <= Len(new)
              /\ SubSeq(new, 1, Len(old)) = old
           \/ /\ Has("current_symbol")
              /\ session_state'.current_symbol # session_state.current_symbol
              /\ new = <<>>]_vars

\* a typed question appended to a history that held an exchange already
C12_Witness ==
    /\ run.trigger = "input"
    /\ run.prev_turns >= 2
    /\ Len(session_state.messages) = run.prev_turns + 2

(***************************************************************************)
(* C13: get_stock_metrics returns the empty metrics, and raises nothing,   *)
(* for the empty series (a frame that is .empty: without points, or whose  *)
(* points hold no value); for a series whose points hold their prices it   *)
(* raises nothing, current_price and open_price are the close and the open *)
(* of the last point, high_price is the greatest High and low_price the    *)
(* least Low over all points.                                              *)
(***************************************************************************)
C13_MetricsAgreeWithReference ==
    (probe.op = "metrics" /\ probe.done) =>
        LET df == probe.df
            m == probe.metrics.value
            n == Len(probe.df)
        IN  IF empty(df)
            THEN ~probe.metrics.raised /\ DOMAIN m = {}
            ELSE (\A c \in PriceColumns : has_key(df[1], c)) =>
                 /\ ~probe.metrics.raised
                 /\ DOMAIN m = {"current_price", "open_price",
                                "high_price", "low_price"}
                 /\ m.current_price = item(df[n], "Close")
                 /\ m.open_price = item(df[n], "Open")
                 /\ \E i \in 1..n : item(df[i], "High") = m.high_price
                 /\ \A i \in 1..n : item(df[i], "High").num <= m.high_price.num
                 /\ \E i \in 1..n : item(df[i], "Low") = m.low_price
                 /\ \A i \in 1..n : item(df[i], "Low").num >= m.low_price.num

\* three points, the last holding neither the high nor the low
C13_Witness ==
    /\ probe.op = "metrics" /\ probe.done
    /\ Len(probe.df) = 3
    /\ ~empty(probe.df)
    /\ ~probe.metrics.raised
    /\ item(probe.df[3], "High").num < probe.metrics.value.high_price.num
    /\ item(probe.df[3], "Low").num > probe.metrics.value.low_price.num
    /\ probe.metrics.value.current_price = item(probe.df[3], "Close")

(***************************************************************************)
(* C14: every request deepseek_chat sends is the one fixed system turn,    *)
(* in first position, followed by the caller's messages unchanged and in   *)
(* their order; no request has no system turn or more than one.            *)
(***************************************************************************)
C14_SystemTurnFirst ==
    (probe.op = "chat" /\ probe.done) =>
        LET sent == probe.result.sent
        IN  /\ Len(sent) = Len(probe.messages) + 1
            /\ sent[1] = [role |-> "system", content |-> SYSTEM_PROMPT]
            /\ \A i \in 1..Len(probe.messages) : sent[i + 1] = probe.messages[i]
            /\ Cardinality({i \in 1..Len(sent) : sent[i].role = "system"}) = 1

\* a caller handed over two different turns: three are sent, system first
C14_Witness ==
    /\ probe.op = "chat" /\ probe.done
    /\ Len(probe.messages) = 2
    /\ probe.messages[1] # probe.messages[2]
    /\ Len(probe.result.sent) = 3
    /\ probe.result.sent[1].role = "system"

(***************************************************************************)
(* Reading the content of a request                                        *)
(***************************************************************************)
\* the text t occurs in the text s
Contains(s, t) ==
    \E i \in 1..(Len(s) - Len(t) + 1) : SubSeq(s, i, i + Len(t) - 1) = t

\* the content of the user turn of chat request i of the last run
ContentSent(i) == run.io[i].sent[2].content

\* the high of the cached series is in none of its first HeadRows rows
HighBeyondHead ==
    \A k \in 1..HeadRows :
        item(session_state.stock_data[k], "High") # run.metrics.high_price

(***************************************************************************)
(* C15 as stated: after a fetch of more than 5 points and a question, the  *)
(* context sent contains the period high over all points as the metrics    *)
(* extractor computes it, and of the rows only the first 5.                *)
(***************************************************************************)
C15_ContextHoldsPeriodHigh ==
    \A i \in ChatCalls :
        /\ Contains(ContentSent(i), number_text(run.metrics.high_price))
        /\ \A k \in 1..Len(session_state.stock_data) :
              Contains(ContentSent(i), row_text(session_state.stock_data[k]))
                  <=> k <= HeadRows

(***************************************************************************)
(* C15 amended: after a fetch of more than 5 points and a question, the    *)
(* context sent contains the first 5 rows verbatim and no other row; the   *)
(* period high over all points is drawn as a metric on the page, and is in *)
(* the context only if one of the first 5 rows holds it.                   *)
(***************************************************************************)
C15_ContextHoldsFirstRowsOnly ==
    \A i \in ChatCalls :
        LET df == session_state.stock_data
        IN  /\ \A k \in 1..Len(df) :
                  Contains(ContentSent(i), row_text(df[k])) <=> k <= HeadRows
            /\ \A k \in 1..Len(df) :
                  item(df[k], "High").num <= run.metrics.high_price.num
            /\ HighBeyondHead =>
                  ~Contains(ContentSent(i),
                            number_text(run.metrics.high_price))

\* a question about a series whose high is in its sixth row
C15_Witness ==
    \E i \in ChatCalls :
        /\ Len(session_state.stock_data) > HeadRows
        /\ item(session_state.stock_data[HeadRows + 1], "High")
               = run.metrics.high_price
        /\ HighBeyondHead
        /\ Contains(ContentSent(i), row_text(session_state.stock_data[1]))

(***************************************************************************)
(* C16: the chat interface is reached, and a chat request is sent, only    *)
(* while the cached series is non-empty; the "No stock data available"     *)
(* warning is never shown and every context holds at least one row.        *)
(***************************************************************************)
ChatInterface == {"example prompts", "chat messages", "chat input"}

C16_ChatOnlyWithSeries ==
    /\ "warning: No stock data available" \notin run.shown
    /\ run.shown \cap ChatInterface # {} => ~empty(session_state.stock_data)
    /\ \A i \in ChatCalls :
          /\ ~empty(session_state.stock_data)
          /\ Contains(ContentSent(i), row_text(session_state.stock_data[1]))

(***************************************************************************)
(* C17: a click on an example prompt leads to exactly one processed        *)
(* question, in the same run; between runs pending_prompt is absent or     *)
(* None, the run st.rerun() starts processes nothing, and no run processes *)
(* more than one question.                                                 *)
(***************************************************************************)
C17_PendingPromptConsumedOnce ==
    /\ Len(run.processed) <= 1
    /\ Cardinality(ChatCalls) = Len(run.processed)
    /\ Has("pending_prompt") => session_state.pending_prompt = None
    /\ run.trigger = "rerun" => run.processed = <<>>
    /\ (run.trigger = "click" /\ run.at = "done") =>
          /\ Len(run.processed) = 1
          /\ \E k \in 1..Len(EXAMPLE_PROMPTS) :
                run.processed[1] = EXAMPLE_PROMPTS[k]
          /\ session_state.messages[run.prev_turns + 1]
                 = [role |-> "user", content |-> run.processed[1]]
          /\ event.requests = 1

(***************************************************************************)
(* C18: while no fetch has succeeded, every run ends before the sidebar    *)
(* and the chat interface, the active symbol is the default and the        *)
(* history is empty: another symbol or a non-empty history implies that    *)
(* an earlier fetch succeeded.                                             *)
(***************************************************************************)
C18_NothingBeforeFirstFetch ==
    /\ (/\ Has("current_symbol")
        /\ \/ session_state.current_symbol # DEFAULT_SYMBOL
           \/ session_state.messages # <<>>)
          => series_symbol # None
    /\ series_symbol = None =>
          run.shown \cap ({"sidebar"} \cup ChatInterface) = {}

\* the fetch for the default symbol failed twice in a row
C18_Witness ==
    /\ run.trigger = "load"
    /\ fetch_failed_in(run.io)
    /\ series_symbol = None
    /\ session_state.current_symbol = DEFAULT_SYMBOL
    /\ session_state.messages = <<>>
    /\ "sidebar" \notin run.shown

=============================================================================
